---- MODULE Spec2Model ----
(***************************************************************************)
(* LineAnnotationSender (line_detection_result_handler.py): a detection    *)
(* result handler that keeps a roster of LINE audience ids, refreshes it   *)
(* from the RegisteredAudience table, filters detection results, composes  *)
(* a buttons message and multicasts it.                                    *)
(*                                                                         *)
(* The object's fields are variables.  The methods take no lock, so the    *)
(* calls that several threads make on the one object overlap: every call   *)
(* is followed line by line, one step for each read or assignment of a     *)
(* field and for each call out (the store, the filter, the url handlers,   *)
(* the push).  What the store, the filter, the url handlers and the push   *)
(* answer is drawn at the step that asks them; the wall clock (arrow.now)  *)
(* advances on its own.                                                    *)
(***************************************************************************)
EXTENDS Integers, Sequences, FiniteSets

\* ---------------------------------------------------------------- bounds
MaxTime == 2
NUsers == 1
MaxPeriod == 1
NThreads == 2
MaxIdLen == 2

\* ------------------------------------------------------------- constants
None == "None"
LINE_PLATFROM == "line"
OTHER_PLATFORM == "other"

Users == 1..NUsers
Platforms == {LINE_PLATFROM, OTHER_PLATFORM}
\* rows of the RegisteredAudience table: <<user_id, platform_id>>; user 1 may
\* also be registered on another platform
Rows == (Users \X {LINE_PLATFROM}) \cup {<<1, OTHER_PLATFORM>>}
Periods == 0..MaxPeriod
Times == 0..MaxTime
\* what a url handler returns for the drawn image path
UrlOf(handler) == <<"url", handler>>
\* str(detection_result.image_id) of the detection results handled, as a string
\* of characters
ImageIds == {<<"e", "1">>}

\* the image ids of the feedback texts: strings of 1..MaxIdLen characters, the
\* separator of the template among them
IdChars == {"e", "_"}
IdStrings == UNION {[1..n -> IdChars] : n \in 1..MaxIdLen}

\* the two fields of the template filled the other way round
LINE_FALSE_ALERT_MSG_TEMPLATE_mut_swapped(image_id, meta) ==
    <<"f", "a", "l", "s", "e", "_", "a", "l", "e", "r", "t", "_">>
        \o meta \o <<"_">> \o image_id

\* "false_alert_{image_id}_{meta}".format(image_id=..., meta=...)
FALSE_ALERT_PREFIX == <<"f", "a", "l", "s", "e", "_", "a", "l", "e", "r", "t", "_">>
LINE_FALSE_ALERT_MSG_TEMPLATE(image_id, meta) ==
    FALSE_ALERT_PREFIX \o image_id \o <<"_">> \o meta

\* ------------------------------------------------------------- variables
VARIABLES
    now,                     \* arrow.now(), in seconds
    alive,                   \* __init__ returned an object
    water_mark_time,
    update_audience_period,
    database,
    detection_result_filter,
    audience_ids,
    raw_image_url_handler,
    ctor,                    \* what __init__ was given, the calls it made, what its
                             \* query returned and the roster it left
    prevFetchAt,             \* time of the store query before the latest one (_handle)
    lastFetchAt,             \* time of the latest store query made by _handle
    th,                      \* the calls on the object, one per calling thread: the
                             \* method, the line it is at, its locals, the external
                             \* calls it has made and how it ended
    composed                 \* the last feedback texts formatted, with their image ids

vars == <<now, alive, water_mark_time, update_audience_period, database,
          detection_result_filter, audience_ids, raw_image_url_handler,
          ctor, prevFetchAt, lastFetchAt, th, composed>>

\* the fields of the object, as the methods read them
Self == [water_mark_time |-> water_mark_time,
         update_audience_period |-> update_audience_period,
         database |-> database,
         detection_result_filter |-> detection_result_filter,
         audience_ids |-> audience_ids,
         raw_image_url_handler |-> raw_image_url_handler]

\* ----------------------------------------------------------------- methods

\* one entry of a call log: the collaborator called and how the call ended
\* ("ok", "raise", or the verdict of the filter)
Call(callee, result) == <<callee, result>>

\* the user ids the table tbl holds for the platform
Registered(tbl) == {r[1] : r \in {x \in tbl : x[2] = LINE_PLATFROM}}

\* without a database the roster is taken to be empty: nothing is raised
get_registered_audiences_mut_nodb(db, tbl, up) ==
    IF db = None
    THEN [raised |-> FALSE, calls |-> <<>>, value |-> {}]
    ELSE IF ~up
         THEN [raised |-> TRUE, calls |-> <<Call("query", "raise")>>, value |-> {}]
         ELSE [raised |-> FALSE, calls |-> <<Call("query", "ok")>>,
               value |-> Registered(tbl)]

\* a query that fails is caught and answered with the empty set
get_registered_audiences_mut_caught(db, tbl, up) ==
    IF db = None
    THEN [raised |-> TRUE, calls |-> <<>>, value |-> {}]
    ELSE IF ~up
         THEN [raised |-> FALSE, calls |-> <<Call("query", "raise")>>, value |-> {}]
         ELSE [raised |-> FALSE, calls |-> <<Call("query", "ok")>>,
               value |-> Registered(tbl)]

\* get_registered_audiences: raises without a database; otherwise
\* set(i.user_id for i in RegisteredAudience.select().where(platform_id == 'line')),
\* which raises when the database does not answer (up is whether it answers,
\* tbl the table it reads)
get_registered_audiences(db, tbl, up) ==
    IF db = None
    THEN [raised |-> TRUE, calls |-> <<>>, value |-> {}]
    ELSE IF ~up
         THEN [raised |-> TRUE, calls |-> <<Call("query", "raise")>>, value |-> {}]
         ELSE [raised |-> FALSE, calls |-> <<Call("query", "ok")>>,
               value |-> Registered(tbl)]

\* create_db_table: check_proxy_db, then RegisteredAudience.create_table()
create_db_table(db, up) ==
    [raised |-> ~up, calls |-> <<Call("create_table", IF up THEN "ok" ELSE "raise")>>]

\* the period's truthiness is not tested
RefreshDue_mut_noperiod(self, t) ==
    /\ self.database # None
    /\ t - self.water_mark_time > self.update_audience_period

\* the database is not tested
RefreshDue_mut_nodbcheck(self, t) ==
    /\ self.update_audience_period # 0
    /\ t - self.water_mark_time > self.update_audience_period

\* the two tests of audience_update (lines 103-105) at time t: whether it goes
\* on to get_registered_audiences; water_mark_time is read, never assigned
RefreshDue(self, t) ==
    /\ self.update_audience_period # 0
    /\ self.database # None
    /\ t - self.water_mark_time > self.update_audience_period

\* the rows fetched are added to the roster instead of replacing it
AssignRoster_mut_merge(self, fetched) == self.audience_ids \cup fetched

\* line 107, self.audience_ids = audience_ids: the roster it leaves
AssignRoster(self, fetched) == fetched

\* the filter's verdict is ignored
FilterPasses_mut_nofilter(accept) == TRUE

\* line 114, `if self.detection_result_filter(detection_result):`, on the
\* filter's verdict
FilterPasses(accept) == accept

\* the emptiness check is missing
Truthy_mut_nocheck(roster) == TRUE

\* line 155, `if self.audience_ids:`
Truthy(roster) == roster # {}

\* TemplateSendMessage(ButtonsTemplate(thumbnail_image_url, MessageAction(text), URIAction(uri)))
ButtonsMsg(image_url, raw_image_url, text) ==
    [thumbnail_image_url |-> image_url, uri |-> raw_image_url, text |-> text]

\* a failed multicast is tried once more
multicast_mut_retry(to, msg, pushOK) ==
    LET m == [to |-> to, msg |-> msg]
    IN IF pushOK
       THEN [raised |-> FALSE, calls |-> <<Call("multicast", "ok")>>, sent |-> <<m>>]
       ELSE [raised |-> TRUE,
             calls |-> <<Call("multicast", "raise"), Call("multicast", "raise")>>,
             sent |-> <<m, m>>]

\* line 156, self.line_bot_api.multicast(list(self.audience_ids), buttons_msg):
\* pushOK is whether the push returns (it raises otherwise)
multicast(to, msg, pushOK) ==
    [raised |-> ~pushOK,
     calls |-> <<Call("multicast", IF pushOK THEN "ok" ELSE "raise")>>,
     sent |-> <<[to |-> to, msg |-> msg]>>]

\* the audience_ids argument: None, or a set of ids
NoIds == <<>>
Ids(S) == <<S>>

\* the arguments of __init__ the model varies
CtorArgs ==
    [audience_ids : {NoIds} \cup {Ids(S) : S \in SUBSET Users},
     update_audience_period : Periods,
     detection_result_filter : {None, "filter"},
     database : {None, "db"},
     raw_image_url_handler : {None, "raw_image_url_handler"}]

Built(a, t, roster, cs, got, failed) ==
    [raised |-> failed,
     calls |-> cs,
     fetched |-> got,
     water_mark_time |-> t,
     update_audience_period |-> a.update_audience_period,
     detection_result_filter |-> a.detection_result_filter,
     database |-> a.database,
     audience_ids |-> roster,
     raw_image_url_handler |->
         IF a.raw_image_url_handler # None
         THEN a.raw_image_url_handler ELSE "image_url_handler"]

\* `if not audience_ids` in place of `if audience_ids is None`
init_mut_falsy(a, t, tbl, up1, up2) ==
    LET c == IF a.database # None THEN create_db_table(a.database, up1)
             ELSE [raised |-> FALSE, calls |-> <<>>]
    IN IF c.raised THEN Built(a, t, {}, c.calls, NoIds, TRUE)
       ELSE IF a.audience_ids = NoIds \/ a.audience_ids = Ids({})
            THEN LET r == get_registered_audiences(a.database, tbl, up2)
                 IN Built(a, t, r.value, c.calls \o r.calls,
                          IF r.raised THEN NoIds ELSE Ids(r.value), r.raised)
            ELSE Built(a, t, a.audience_ids[1], c.calls, NoIds, FALSE)

\* __init__: up1 is whether the database answers create_table (line 59), up2
\* whether it answers the query of get_registered_audiences (line 61), tbl the
\* table that query reads
init(a, t, tbl, up1, up2) ==
    LET c == IF a.database # None THEN create_db_table(a.database, up1)
             ELSE [raised |-> FALSE, calls |-> <<>>]
    IN IF c.raised THEN Built(a, t, {}, c.calls, NoIds, TRUE)
       ELSE IF a.audience_ids = NoIds
            THEN LET r == get_registered_audiences(a.database, tbl, up2)
                 IN Built(a, t, r.value, c.calls \o r.calls,
                          IF r.raised THEN NoIds ELSE Ids(r.value), r.raised)
            ELSE Built(a, t, a.audience_ids[1], c.calls, NoIds, FALSE)

\* -------------------------------------------------------------- behaviour

NoFetch == 0 - 1

\* the log cs has a call of callee; how many; one that ended with result
Called(cs, callee) == \E k \in 1..Len(cs) : cs[k][1] = callee
Count(cs, callee) == Cardinality({k \in 1..Len(cs) : cs[k][1] = callee})
Returned(cs, callee, result) == \E k \in 1..Len(cs) : cs[k] = Call(callee, result)

\* the threads that call the methods of the one object
Threads == 1..NThreads

\* the methods a thread calls
Methods == {"_handle", "audience_update", "send_annotation_button_msg"}

\* a thread that has made no call yet. op is the method called and pc the line
\* the call is at ("idle": it has ended, and the rest tells how); image_id is
\* str(detection_result.image_id); calls the external calls made so far; snap
\* the roster the object had when the call's audience_update returned (NoIds:
\* it has not yet); got the local audience_ids of audience_update and seen the
\* table its query read; sent the multicasts made; out how the call ended
Idle == [op |-> None, pc |-> "idle", image_id |-> <<>>, calls |-> <<>>,
         snap |-> NoIds, got |-> {}, seen |-> {}, sent |-> <<>>, out |-> None]

\* the filter is asked first, the roster refreshed for what it accepts
HandleOrder_mut_filterfirst ==
    <<"filter", "audience_update", "image_url", "raw_image_url", "check">>

\* the statements of _handle, in order: audience_update (111), the filter
\* (114), image_url_handler (115), raw_image_url_handler (117) and
\* send_annotation_button_msg (120), which starts at its check of line 155
HandleOrder == <<"audience_update", "filter", "image_url", "raw_image_url", "check">>

Position(line) == CHOOSE k \in 1..Len(HandleOrder) : HandleOrder[k] = line

\* the call c moves to a line; logs an external call; ends
Go(c, line) == [c EXCEPT !.pc = line]
Log(c, callee, result) == [c EXCEPT !.calls = Append(@, Call(callee, result))]
Return(c, how) == [c EXCEPT !.pc = "idle", !.out = how, !.got = {}, !.seen = {}]

\* where a call of the method op starts
Entry(op) ==
    IF op = "_handle" THEN HandleOrder[1]
    ELSE IF op = "audience_update" THEN "audience_update" ELSE "check"

\* the statement at line returned: _handle goes on to its next statement, a
\* method called on its own returns
After(c, line) ==
    IF c.op = "_handle" /\ Position(line) < Len(HandleOrder)
    THEN Go(c, HandleOrder[Position(line) + 1])
    ELSE Return(c, "Returned")

\* audience_update returns to its caller, which goes on with the roster the
\* object then has
AfterUpdate(c, roster) == After([c EXCEPT !.snap = Ids(roster)], "audience_update")

\* a url handler that raises is caught and the call goes on
CallOut_mut_swallow(self, c, callee, ok, line) ==
    [c |-> After(Log(c, callee, IF ok THEN "ok" ELSE "raise"), line),
     audience_ids |-> self.audience_ids]

\* a url handler that raises empties the roster on its way out
CallOut_mut_clear(self, c, callee, ok, line) ==
    LET c1 == Log(c, callee, IF ok THEN "ok" ELSE "raise")
    IN [c |-> IF ok THEN After(c1, line) ELSE Return(c1, "Failed(compose-error)"),
        audience_ids |-> IF ok THEN self.audience_ids ELSE {}]

\* lines 115 and 117, a url handler called by _handle: it returns (ok) and
\* _handle goes on, or it raises and the exception leaves _handle; no field of
\* the object is assigned
CallOut(self, c, callee, ok, line) ==
    LET c1 == Log(c, callee, IF ok THEN "ok" ELSE "raise")
    IN [c |-> IF ok THEN After(c1, line) ELSE Return(c1, "Failed(compose-error)"),
        audience_ids |-> self.audience_ids]

\* lines 118-119 and 137-154: the message send_annotation_button_msg builds
MessageOf(self, c) ==
    ButtonsMsg(UrlOf("image_url_handler"), UrlOf(self.raw_image_url_handler),
               LINE_FALSE_ALERT_MSG_TEMPLATE(c.image_id, <<>>))

Init ==
    /\ now \in {0}
    /\ \E a \in CtorArgs, tbl \in SUBSET Rows, up1 \in BOOLEAN, up2 \in BOOLEAN :
         LET o == init(a, now, tbl, up1, up2)
         IN /\ alive = ~o.raised
            /\ water_mark_time = o.water_mark_time
            /\ update_audience_period = o.update_audience_period
            /\ database = o.database
            /\ detection_result_filter = o.detection_result_filter
            /\ audience_ids = o.audience_ids
            /\ raw_image_url_handler = o.raw_image_url_handler
            /\ ctor = [given |-> a.audience_ids, calls |-> o.calls,
                       fetched |-> o.fetched, roster |-> o.audience_ids]
    /\ prevFetchAt = NoFetch
    /\ lastFetchAt = NoFetch
    /\ th = [t \in Threads |-> Idle]
    /\ composed = <<>>

Fixed == UNCHANGED <<alive, water_mark_time, update_audience_period, database,
                     detection_result_filter, raw_image_url_handler, ctor, composed>>

\* a thread calls _handle(detection_result), audience_update() or
\* send_annotation_button_msg(image_url, raw_image_url, text) on the object
Begin(t) ==
    /\ alive
    /\ th[t].pc = "idle"
    /\ \E op \in Methods :
         \E id \in IF op = "audience_update" THEN {<<>>} ELSE ImageIds :
            th' = [th EXCEPT ![t] = [Idle EXCEPT !.op = op, !.pc = Entry(op),
                                                 !.image_id = id]]
    /\ UNCHANGED <<now, audience_ids, prevFetchAt, lastFetchAt>>
    /\ Fixed

\* lines 103-105: audience_update reads the clock and goes on to the query, or
\* returns
Decide(t) ==
    /\ th[t].pc = "audience_update"
    /\ IF RefreshDue(Self, now)
       THEN /\ th' = [th EXCEPT ![t] = Go(@, "query")]
            /\ prevFetchAt' = IF th[t].op = "_handle" THEN lastFetchAt ELSE prevFetchAt
            /\ lastFetchAt' = IF th[t].op = "_handle" THEN now ELSE lastFetchAt
       ELSE /\ th' = [th EXCEPT ![t] = AfterUpdate(@, audience_ids)]
            /\ UNCHANGED <<prevFetchAt, lastFetchAt>>
    /\ UNCHANGED <<now, audience_ids>>
    /\ Fixed

\* line 106: the query of get_registered_audiences answers with the rows of
\* the table as it then is, or raises
QueryReturn(t) ==
    /\ th[t].pc = "query"
    /\ \E tbl \in SUBSET Rows, up \in BOOLEAN :
         LET r == get_registered_audiences(database, tbl, up)
             c == [th[t] EXCEPT !.calls = @ \o r.calls]
         IN th' = [th EXCEPT ![t] =
                      IF r.raised
                      THEN Return(c, IF r.calls = <<>> THEN "Raised(no-database)"
                                     ELSE "Raised(store)")
                      ELSE [c EXCEPT !.pc = "assign", !.got = r.value, !.seen = tbl]]
    /\ UNCHANGED <<now, audience_ids, prevFetchAt, lastFetchAt>>
    /\ Fixed

\* line 107: self.audience_ids = audience_ids, and audience_update returns
Assign(t) ==
    /\ th[t].pc = "assign"
    /\ audience_ids' = AssignRoster(Self, th[t].got)
    /\ th' = [th EXCEPT ![t] = AfterUpdate([@ EXCEPT !.got = {}, !.seen = {}],
                                           audience_ids')]
    /\ UNCHANGED <<now, prevFetchAt, lastFetchAt>>
    /\ Fixed

\* line 114: the filter is called (calling None raises) and gives its verdict
Filter(t) ==
    /\ th[t].pc = "filter"
    /\ IF detection_result_filter = None
       THEN th' = [th EXCEPT ![t] = Return(@, "Raised(TypeError)")]
       ELSE \E accept \in BOOLEAN :
               LET c == Log(th[t], "filter", IF accept THEN "True" ELSE "False")
               IN th' = [th EXCEPT ![t] =
                            IF FilterPasses(accept) THEN After(c, "filter")
                            ELSE Return(c, "Skipped(filtered-out)")]
    /\ UNCHANGED <<now, audience_ids, prevFetchAt, lastFetchAt>>
    /\ Fixed

\* line 115: image_url_handler
ImageUrl(t) ==
    /\ th[t].pc = "image_url"
    /\ \E ok \in BOOLEAN :
         LET r == CallOut(Self, th[t], "image_url_handler", ok, "image_url")
         IN /\ th' = [th EXCEPT ![t] = r.c]
            /\ audience_ids' = r.audience_ids
    /\ UNCHANGED <<now, prevFetchAt, lastFetchAt>>
    /\ Fixed

\* line 117: raw_image_url_handler (image_url_handler when none was given)
RawImageUrl(t) ==
    /\ th[t].pc = "raw_image_url"
    /\ \E ok \in BOOLEAN :
         LET r == CallOut(Self, th[t], raw_image_url_handler, ok, "raw_image_url")
         IN /\ th' = [th EXCEPT ![t] = r.c]
            /\ audience_ids' = r.audience_ids
    /\ UNCHANGED <<now, prevFetchAt, lastFetchAt>>
    /\ Fixed

\* lines 137-155: the message is built; if self.audience_ids
CheckAudience(t) ==
    /\ th[t].pc = "check"
    /\ th' = [th EXCEPT ![t] = IF Truthy(audience_ids) THEN Go(@, "multicast")
                               ELSE Return(@, "Skipped(no-recipients)")]
    /\ UNCHANGED <<now, audience_ids, prevFetchAt, lastFetchAt>>
    /\ Fixed

\* line 156: multicast(list(self.audience_ids), buttons_msg), a second read of
\* self.audience_ids
Multicast(t) ==
    /\ th[t].pc = "multicast"
    /\ \E pushOK \in BOOLEAN :
         LET m == multicast(audience_ids, MessageOf(Self, th[t]), pushOK)
             c == [th[t] EXCEPT !.calls = @ \o m.calls, !.sent = m.sent]
         IN th' = [th EXCEPT ![t] =
                      Return(c, IF m.raised THEN "Failed(delivery)" ELSE "Delivered")]
    /\ UNCHANGED <<now, audience_ids, prevFetchAt, lastFetchAt>>
    /\ Fixed

\* the clock advances
Tick ==
    /\ now < MaxTime
    /\ now' = now + 1
    /\ UNCHANGED <<audience_ids, prevFetchAt, lastFetchAt, th>>
    /\ Fixed

Next ==
    \/ \E t \in Threads :
          \/ Begin(t) \/ Decide(t) \/ QueryReturn(t) \/ Assign(t) \/ Filter(t)
          \/ ImageUrl(t) \/ RawImageUrl(t) \/ CheckAudience(t) \/ Multicast(t)
    \/ Tick

Spec == Init /\ [][Next]_vars

TypeOK ==
    /\ now \in Times
    /\ audience_ids \subseteq Users
    /\ update_audience_period \in Periods

\* ------------------------------------------------------- the feedback texts

\* the last three entries of a log
LastThree(q) == IF Len(q) <= 3 THEN q ELSE SubSeq(q, Len(q) - 2, Len(q))

\* an object that delivers: a filter, a roster given at construction
InitToken ==
    /\ Init
    /\ alive
    /\ detection_result_filter # None
    /\ database = None
    /\ update_audience_period = 0
    /\ audience_ids # {}

\* lines 118-119 of _handle, for a detection result with any image id:
\* LINE_FALSE_ALERT_MSG_TEMPLATE.format(image_id=str(image_id), meta='')
FormatText ==
    /\ alive
    /\ \E image_id \in IdStrings :
         composed' = LastThree(Append(composed,
                        [image_id |-> image_id,
                         text |-> LINE_FALSE_ALERT_MSG_TEMPLATE(image_id, <<>>)]))
    /\ UNCHANGED <<now, alive, water_mark_time, update_audience_period, database,
                   detection_result_filter, audience_ids, raw_image_url_handler,
                   ctor, prevFetchAt, lastFetchAt, th>>

NextToken == FormatText

SpecToken == InitToken /\ [][NextToken]_vars

\* ------------------------------------------------------------ construction

\* the object after __init__, with no call made on it
NextCtor == Tick

SpecCtor == Init /\ [][NextCtor]_vars

\* ------------------------------------------- an object that never refreshes

\* period 0, or no database: audience_update never gets to the query
InitFixed ==
    /\ Init
    /\ alive
    /\ (update_audience_period = 0 \/ database = None)

NextFixed ==
    \/ \E t \in Threads :
          \/ Begin(t) \/ Decide(t) \/ Filter(t) \/ ImageUrl(t) \/ RawImageUrl(t)
          \/ CheckAudience(t) \/ Multicast(t)
    \/ Tick

SpecFixed == InitFixed /\ [][NextFixed]_vars

\* ------------------------------------------------------------------ claims

\* the url handlers, by the names the call log gives them
UrlHandlers == {"image_url_handler", "raw_image_url_handler"}
\* in the log cs a url handler raised; both url handler calls returned
ResolverRaised(cs) == \E k \in 1..Len(cs) : cs[k][1] \in UrlHandlers /\ cs[k][2] = "raise"
ResolversReturned(cs) ==
    Cardinality({k \in 1..Len(cs) : cs[k][1] \in UrlHandlers /\ cs[k][2] = "ok"}) = 2
\* thread t is in, or was last in, a _handle call; its last call has ended
InHandle(t) == th[t].op = "_handle"
Ended(t) == th[t].pc = "idle" /\ th[t].out # None

\* C1 (as claimed): with update_audience_period = P > 0, a database and a
\* filter, two store queries made by _handle calls are never less than P apart.
C1_RefreshThrottled ==
    (update_audience_period > 0 /\ database # None /\ detection_result_filter # None
     /\ prevFetchAt # NoFetch)
        => lastFetchAt - prevFetchAt >= update_audience_period

\* C2 (as claimed): a _handle call whose store query raised still gets to the
\* filter and ends as Delivered, Skipped(filtered-out), Skipped(no-recipients)
\* or Failed(compose-error) (or with the failure of the push itself), never
\* with the store's failure.
C2_RefreshFailureNeverBlocks ==
    \A t \in Threads :
        (InHandle(t) /\ Ended(t) /\ Returned(th[t].calls, "query", "raise")
         /\ detection_result_filter # None)
            => /\ th[t].out \in {"Delivered", "Skipped(filtered-out)",
                                 "Skipped(no-recipients)", "Failed(compose-error)",
                                 "Failed(delivery)"}
               /\ Called(th[t].calls, "filter")

\* C3: a call whose store query raises ends there, before the assignment of
\* line 107, and the step in which the query raises leaves audience_ids
\* exactly as it was.
C3_StaleOnFailure ==
    /\ [](\A t \in Threads :
             Returned(th[t].calls, "query", "raise")
                => /\ th[t].pc = "idle"
                   /\ th[t].out = "Raised(store)"
                   /\ th[t].calls = <<Call("query", "raise")>>)
    /\ [][\A t \in Threads :
             (th[t].pc = "query" /\ Returned(th'[t].calls, "query", "raise"))
                => audience_ids' = audience_ids]_vars

\* C3 witness: the query of a _handle call raised and the roster, not empty,
\* is the one construction left.
C3_Witness ==
    \E t \in Threads :
        /\ InHandle(t)
        /\ Returned(th[t].calls, "query", "raise")
        /\ audience_ids # {}
        /\ audience_ids = ctor.roster

\* C4: a _handle call whose filter returns False makes no url handler call and
\* no multicast, and ends as Skipped(filtered-out).
C4_FilterGating ==
    \A t \in Threads :
        Returned(th[t].calls, "filter", "False")
            => /\ \A k \in 1..Len(th[t].calls) :
                     th[t].calls[k][1] \notin UrlHandlers \cup {"multicast"}
               /\ th[t].sent = <<>>
               /\ th[t].pc = "idle"
               /\ th[t].out = "Skipped(filtered-out)"

\* C4 witness: a call on a non-empty roster whose filter returned False.
C4_Witness ==
    \E t \in Threads :
        /\ Returned(th[t].calls, "filter", "False")
        /\ audience_ids # {}

\* C5: no call multicasts more than once; a call that finds the roster not
\* empty at line 155 goes on to multicast, and multicasts once, to the roster
\* as line 156 reads it, the message built from the two urls and the feedback
\* text of its own image id; a _handle call whose filter returned True and
\* whose url handlers returned ends delivered, failed in the push, or skipped
\* for want of recipients; a multicast that raises ends the call as failed,
\* after that one attempt.
C5_DeliverExactlyOnce ==
    /\ [](\A t \in Threads :
             /\ Count(th[t].calls, "multicast") <= 1
             /\ Len(th[t].sent) = Count(th[t].calls, "multicast")
             /\ th[t].sent # <<>>
                   => /\ th[t].sent[1].msg = MessageOf(Self, th[t])
                      /\ th[t].image_id \in ImageIds
                      /\ th[t].out = IF Returned(th[t].calls, "multicast", "ok")
                                     THEN "Delivered" ELSE "Failed(delivery)"
             /\ (InHandle(t) /\ Ended(t) /\ Returned(th[t].calls, "filter", "True")
                 /\ ResolversReturned(th[t].calls))
                   => th[t].out \in {"Delivered", "Failed(delivery)",
                                     "Skipped(no-recipients)"})
    /\ [][\A t \in Threads :
             /\ (th[t].pc = "check" /\ th'[t] # th[t] /\ audience_ids # {})
                   => th'[t].pc = "multicast"
             /\ (th[t].pc = "multicast" /\ th'[t] # th[t])
                   => /\ Len(th'[t].sent) = 1
                      /\ th'[t].sent[1].to = audience_ids
                      /\ th'[t].pc = "idle"]_vars

\* C5 witness: a _handle call refreshed the roster from the table and
\* delivered to it.
C5_Witness ==
    \E t \in Threads :
        /\ InHandle(t)
        /\ th[t].out = "Delivered"
        /\ Returned(th[t].calls, "query", "ok")
        /\ Len(th[t].sent) = 1
        /\ th[t].sent[1].to # {}
        /\ th[t].sent[1].to = audience_ids

\* C6: a call that finds the roster empty at line 155 makes no multicast and
\* ends there as Skipped(no-recipients), which is no failure.
C6_EmptyRecipientSkip ==
    /\ [](\A t \in Threads :
             th[t].out = "Skipped(no-recipients)"
                => /\ ~Called(th[t].calls, "multicast")
                   /\ th[t].sent = <<>>)
    /\ [][\A t \in Threads :
             (th[t].pc = "check" /\ th'[t] # th[t] /\ audience_ids = {})
                => /\ th'[t].pc = "idle"
                   /\ th'[t].out = "Skipped(no-recipients)"
                   /\ th'[t].calls = th[t].calls]_vars

\* C6 witness: a _handle call reached the deliver step with an empty roster
\* and was skipped.
C6_Witness ==
    \E t \in Threads :
        /\ InHandle(t)
        /\ Returned(th[t].calls, "filter", "True")
        /\ ResolversReturned(th[t].calls)
        /\ th[t].out = "Skipped(no-recipients)"
        /\ audience_ids = {}

\* C7: a call in which a url handler raises ends with that failure and makes
\* no multicast.
C7_ComposeFailureIsFatal ==
    \A t \in Threads :
        ResolverRaised(th[t].calls)
            => /\ th[t].pc = "idle"
               /\ th[t].out = "Failed(compose-error)"
               /\ ~Called(th[t].calls, "multicast")
               /\ th[t].sent = <<>>

\* C7 witness: the second url handler raised in a call on a non-empty roster.
C7_Witness ==
    \E t \in Threads :
        /\ ResolverRaised(th[t].calls)
        /\ Returned(th[t].calls, "image_url_handler", "ok")
        /\ audience_ids # {}

\* C8 (as claimed): construction without a filter fails, so no _handle call
\* ever runs on an object that has no filter.
C8_MissingFilterFailsConstruction ==
    detection_result_filter = None => \A t \in Threads : ~InHandle(t)

\* C9: with update_audience_period = 0 no call gets to the store query and the
\* roster stays what construction left.
C9_PeriodZeroNeverRefreshes ==
    (alive /\ update_audience_period = 0)
        => /\ \A t \in Threads :
                 /\ ~Called(th[t].calls, "query")
                 /\ th[t].pc \notin {"query", "assign"}
           /\ lastFetchAt = NoFetch
           /\ audience_ids = ctor.roster

\* C9 witness: period 0, a database, time passed since construction, and a
\* _handle call that delivered to the roster of construction.
C9_Witness ==
    /\ alive
    /\ update_audience_period = 0
    /\ database # None
    /\ now - water_mark_time > 0
    /\ \E t \in Threads : InHandle(t) /\ th[t].out = "Delivered"

\* C10 (as claimed): with audience_ids supplied construction makes no query
\* and the roster is the supplied set; otherwise, whenever no store call of
\* construction raised, construction makes exactly one query and the roster is
\* its result.
C10_CtorFetchAsClaimed ==
    /\ ctor.given # NoIds
          => /\ ~Called(ctor.calls, "query")
             /\ (alive => ctor.roster = ctor.given[1])
    /\ (ctor.given = NoIds /\ \A k \in 1..Len(ctor.calls) : ctor.calls[k][2] # "raise")
          => /\ Count(ctor.calls, "query") = 1
             /\ ctor.fetched # NoIds
             /\ alive
             /\ ctor.roster = ctor.fetched[1]

\* C10 (amended): with audience_ids supplied construction makes no query and
\* the roster is the supplied set; with audience_ids None and a database,
\* construction that succeeds has made exactly one query and the roster is its
\* result; with audience_ids None and no database construction raises without
\* a query.
C10_CtorRoster ==
    /\ ctor.given # NoIds
          => /\ ~Called(ctor.calls, "query")
             /\ (alive => ctor.roster = ctor.given[1])
    /\ (ctor.given = NoIds /\ alive)
          => /\ database # None
             /\ Count(ctor.calls, "query") = 1
             /\ ctor.fetched # NoIds
             /\ ctor.roster = ctor.fetched[1]
    /\ (ctor.given = NoIds /\ database = None)
          => /\ ~alive
             /\ ~Called(ctor.calls, "query")

\* C10 witness: construction without audience_ids fetched a non-empty roster.
C10_Witness ==
    /\ alive
    /\ ctor.given = NoIds
    /\ Returned(ctor.calls, "query", "ok")
    /\ ctor.roster # {}

\* C11 (as claimed): at most one store query of the object's _handle calls is
\* in flight at any time, however the calls of several threads overlap.
C11_SingleInFlightFetch ==
    Cardinality({t \in Threads : InHandle(t) /\ th[t].pc = "query"}) <= 1

\* C12 (as claimed): the recipients a _handle call hands to multicast are the
\* roster the object had when that call's own audience_update returned.
C12_PerCallSnapshot ==
    \A t \in Threads :
        (InHandle(t) /\ th[t].sent # <<>>) => Ids(th[t].sent[1].to) = th[t].snap

\* C13: the feedback text of a message is "false_alert_" + image id + "_"; two
\* texts for the same image id are the same and two texts for different image
\* ids differ.
C13_TokenDeterminism ==
    \A i, j \in 1..Len(composed) :
        /\ composed[i].text =
              <<"f", "a", "l", "s", "e", "_", "a", "l", "e", "r", "t", "_">>
                  \o composed[i].image_id \o <<"_">>
        /\ (composed[i].image_id = composed[j].image_id)
              <=> (composed[i].text = composed[j].text)

\* C13 witness: texts formatted twice for one image id and once for another,
\* one of the ids ending with the separator of the template.
C13_Witness ==
    /\ Len(composed) = 3
    /\ composed[1].image_id = <<"e", "_">>
    /\ composed[2].image_id = <<"e">>
    /\ composed[3].image_id = <<"e", "_">>

\* C14: construction with neither audience_ids nor a database raises and
\* yields no object; construction with audience_ids and no database succeeds
\* with the given set as the roster.
C14_NoSeedNoDatabaseFails ==
    /\ (ctor.given = NoIds /\ database = None) => ~alive
    /\ (ctor.given # NoIds /\ database = None)
          => /\ alive
             /\ ctor.calls = <<>>
             /\ ctor.roster = ctor.given[1]

\* C14 witness: construction without audience_ids and without a database
\* has failed.
C14_Witness ==
    /\ ~alive
    /\ ctor.given = NoIds
    /\ database = None
    /\ ctor.calls = <<>>

\* C15 (as claimed): the successful fetch of audience_update replaces the
\* roster and sets water_mark_time to the time of the refresh.
C15_RefreshSetsWatermark ==
    [][\A t \in Threads :
          (th[t].pc = "assign" /\ th'[t].pc # "assign")
             => /\ audience_ids' = th[t].got
                /\ water_mark_time' = now]_vars

\* C16: the query returns exactly the user ids the table holds for the
\* platform, and the assignment that follows leaves exactly that set as the
\* roster, whatever the roster was.
C16_WholesaleReplacement ==
    /\ [](\A t \in Threads :
             th[t].pc = "assign" => th[t].got = Registered(th[t].seen))
    /\ [][\A t \in Threads :
             (th[t].pc = "assign" /\ th'[t].pc # "assign")
                => audience_ids' = th[t].got]_vars

\* C16 witness: a recipient given at construction is gone after the refresh
\* of a _handle call from a table that does not hold it.
C16_Witness ==
    /\ ctor.given = Ids({1})
    /\ audience_ids = {}
    /\ \E t \in Threads :
          /\ InHandle(t)
          /\ Returned(th[t].calls, "query", "ok")
          /\ th[t].snap = Ids({})

\* C17: no step changes the watermark, the period, the database, the filter
\* or the handlers, and the roster changes in no step but the assignment of
\* line 107: the filter, the url handlers, the emptiness check and the
\* multicast leave it as it was, however they end.
C17_Frame ==
    [][/\ water_mark_time' = water_mark_time
       /\ update_audience_period' = update_audience_period
       /\ database' = database
       /\ detection_result_filter' = detection_result_filter
       /\ raw_image_url_handler' = raw_image_url_handler
       /\ audience_ids' # audience_ids
             => \E t \in Threads : th[t].pc = "assign" /\ th'[t].pc # "assign"
      ]_vars

\* C17 witness: a url handler, or the multicast, raised in a _handle call
\* while another call was between its filter and its emptiness check, and the
\* roster is still there.
C17_Witness ==
    /\ audience_ids # {}
    /\ \E t, u \in Threads :
          /\ t # u
          /\ InHandle(t)
          /\ \/ Returned(th[t].calls, "image_url_handler", "raise")
             \/ Returned(th[t].calls, "multicast", "raise")
          /\ InHandle(u)
          /\ th[u].pc \in {"image_url", "raw_image_url", "check"}

\* the collaborators of a _handle call after its refresh, in the order of
\* _handle
StepOrder == <<"filter", "image_url_handler", raw_image_url_handler, "multicast">>
AfterRefresh(cs) == IF cs # <<>> /\ cs[1][1] = "query" THEN Tail(cs) ELSE cs

\* C18: in every _handle call the store query, if any, comes first, then the
\* filter, the thumbnail url handler, the raw url handler and the multicast,
\* each at most once and each only after the one before it returned; the
\* refresh step has returned before the filter is called, also in a call the
\* filter then rejects; and a query is made only when the refresh is due.
C18_StepOrdering ==
    \A t \in Threads :
        InHandle(t)
           => /\ Len(AfterRefresh(th[t].calls)) <= 4
              /\ \A k \in 1..Len(AfterRefresh(th[t].calls)) :
                    /\ AfterRefresh(th[t].calls)[k][1] = StepOrder[k]
                    /\ k < Len(AfterRefresh(th[t].calls))
                          => AfterRefresh(th[t].calls)[k][2] \in {"True", "ok"}
              /\ Count(th[t].calls, "query") <= 1
              /\ (Called(th[t].calls, "filter") \/ th[t].pc = "filter")
                    => th[t].snap # NoIds
              /\ Called(th[t].calls, "query") => RefreshDue(Self, now)

\* C18 witness: a _handle call refreshed the roster and its filter then
\* rejected the detection result.
C18_Witness ==
    \E t \in Threads :
        /\ InHandle(t)
        /\ th[t].calls = <<Call("query", "ok"), Call("filter", "False")>>
        /\ th[t].snap # NoIds

\* C19 (as claimed): multicast is never called with an empty recipient list,
\* however the _handle calls of several threads overlap.
C19_NoEmptyBroadcast ==
    \A t \in Threads :
        (InHandle(t) /\ th[t].sent # <<>>) => th[t].sent[1].to # {}

\* C20: an object built with audience_ids and no database never gets to the
\* store query, whatever its period, no call on it ends with a failure of the
\* store, and its roster stays the given set.
C20_NoDatabaseNoRefresh ==
    (alive /\ database = None)
        => /\ ctor.given # NoIds
           /\ \A t \in Threads :
                 /\ ~Called(th[t].calls, "query")
                 /\ th[t].pc \notin {"query", "assign"}
                 /\ th[t].out \notin {"Raised(store)", "Raised(no-database)"}
           /\ lastFetchAt = NoFetch
           /\ audience_ids = ctor.given[1]

\* C20 witness: no database, a period long elapsed, and a delivered _handle
\* call.
C20_Witness ==
    /\ alive
    /\ database = None
    /\ update_audience_period > 0
    /\ now - water_mark_time > update_audience_period
    /\ \E t \in Threads : InHandle(t) /\ th[t].out = "Delivered"

====
